---------------------------- MODULE Spec2Model ----------------------------
(***************************************************************************)
(* A model of src/online_news.py: EnhancedNepaliNewsScraper.               *)
(*                                                                         *)
(* Strings are sequences of one-character strings, so that formatting,     *)
(* stripping, joining, splitting and substring search are computed the way *)
(* the Python code computes them.  An optional value (Python's None) is a  *)
(* sequence of length at most one.  The web server is the environment:     *)
(* each GET is answered by a transport error, by a page, or by a body the  *)
(* parser chokes on.                                                       *)
(***************************************************************************)
EXTENDS Integers, Sequences, FiniteSets, TLC

(***************************************************************************)
(* Bounds of the model and constants of the program.                       *)
(***************************************************************************)
\* max_retries is drawn from 1..MaxRetriesBound
MaxRetriesBound == 3
\* n_months is drawn from 1..MaxMonths
MaxMonths == 2
\* articles_per_month and max_articles are drawn from 1..MaxPerMonth
MaxPerMonth == 2
\* a direct call of scrape_articles_bulk is given at most MaxUrls urls
MaxUrls == 2
\* the site of a whole run has at most MaxSitePages listing pages
MaxSitePages == 2
\* the page ceiling of the listing loop
MAX_PAGES == 20
\* the minimum content length of the quality check
MIN_CONTENT_LEN == 100
\* main: EnhancedNepaliNewsScraper(delay_between_requests=2.0, max_retries=3)
MAIN_MAX_RETRIES == 3
\* main: n_months = 6
MAIN_N_MONTHS == 6
\* main: articles_per_month = 100
MAIN_ARTICLES_PER_MONTH == 100
\* Durations are counted in ticks, TicksPerSecond of them to the second
TicksPerSecond == 10

(***************************************************************************)
(* Strings.                                                                *)
(***************************************************************************)
Rep(c, n) == [k \in 1..n |-> c]

Range(s) == {s[k] : k \in 1..Len(s)}

Whitespace == {" ", "\t", "\n"}

\* The positions of s that hold no whitespace
Inked(s) == {k \in 1..Len(s) : s[k] \notin Whitespace}

Min(S) == CHOOSE x \in S : \A y \in S : x <= y

Max(S) == CHOOSE x \in S : \A y \in S : x >= y

\* str.strip() without arguments: from the first to the last non-whitespace
Strip(s) ==
    IF Inked(s) = {} THEN <<>> ELSE SubSeq(s, Min(Inked(s)), Max(Inked(s)))

\* sep.join(parts)
RECURSIVE Join(_, _)
Join(parts, sep) ==
    IF parts = <<>> THEN <<>>
    ELSE IF Len(parts) = 1 THEN parts[1]
    ELSE parts[1] \o sep \o Join(Tail(parts), sep)

\* str.split() without arguments: the maximal runs of non-whitespace, one
\* word per step
RECURSIVE Split(_)
Split(s) ==
    IF Inked(s) = {} THEN <<>>
    ELSE LET from == Min(Inked(s))
             gaps == {k \in from..Len(s) : s[k] \in Whitespace}
             to == IF gaps = {} THEN Len(s) ELSE Min(gaps) - 1
         IN <<SubSeq(s, from, to)>> \o Split(SubSeq(s, to + 1, Len(s)))

\* str.split(sep) with a one-character separator: empty fields are kept
RECURSIVE SplitOn(_, _)
SplitOn(s, sep) ==
    LET at == {k \in 1..Len(s) : s[k] = sep}
    IN IF at = {} THEN <<s>>
       ELSE <<SubSeq(s, 1, Min(at) - 1)>> \o SplitOn(SubSeq(s, Min(at) + 1, Len(s)), sep)

\* needle in hay
Contains(hay, needle) ==
    \E k \in 0..(Len(hay) - Len(needle)) :
        SubSeq(hay, k + 1, k + Len(needle)) = needle

UpperLetters ==
    <<"A","B","C","D","E","F","G","H","I","J","K","L","M",
      "N","O","P","Q","R","S","T","U","V","W","X","Y","Z">>

LowerLetters ==
    <<"a","b","c","d","e","f","g","h","i","j","k","l","m",
      "n","o","p","q","r","s","t","u","v","w","x","y","z">>

LowerChar(c) ==
    IF \E k \in 1..26 : UpperLetters[k] = c
    THEN LowerLetters[CHOOSE k \in 1..26 : UpperLetters[k] = c]
    ELSE c

\* str.lower()
Lower(s) == [k \in 1..Len(s) |-> LowerChar(s[k])]

DigitChars == <<"0","1","2","3","4","5","6","7","8","9">>

\* str(n) for n >= 0
RECURSIVE Str(_)
Str(n) ==
    IF n < 10 THEN <<DigitChars[n + 1]>>
    ELSE Append(Str(n \div 10), DigitChars[(n % 10) + 1])

\* str.zfill(width) of an unsigned string
ZFill(s, width) ==
    IF Len(s) >= width THEN s ELSE Rep("0", width - Len(s)) \o s

(***************************************************************************)
(* Dates: datetime minus timedelta(days=n) on the proleptic Gregorian      *)
(* calendar.                                                               *)
(***************************************************************************)
IsLeap(y) == (y % 4 = 0 /\ y % 100 # 0) \/ y % 400 = 0

DaysInMonth(y, m) ==
    IF m = 2 THEN (IF IsLeap(y) THEN 29 ELSE 28)
    ELSE IF m \in {4, 6, 9, 11} THEN 30 ELSE 31

\* The last day of the month before dt's
EndOfPrevMonth(dt) ==
    IF dt.month > 1
    THEN [year |-> dt.year, month |-> dt.month - 1,
          day |-> DaysInMonth(dt.year, dt.month - 1)]
    ELSE [year |-> dt.year - 1, month |-> 12, day |-> 31]

\* dt - timedelta(days=n), a month at a time
RECURSIVE MinusDays(_, _)
MinusDays(dt, n) ==
    IF n < dt.day THEN [dt EXCEPT !.day = dt.day - n]
    ELSE MinusDays(EndOfPrevMonth(dt), n - dt.day)

(***************************************************************************)
(* The site: what a GET can be answered with.                              *)
(***************************************************************************)
\* "https://www.onlinekhabar.com"
Host ==
    <<"h","t","t","p","s",":","/","/","w","w","w",".","o","n","l","i","n","e","k","h","a","b","a","r",".","c","o","m">>

\* An element a selector may or may not find, with its text
NoNode == [found |-> FALSE, text |-> <<>>]

Node(t) == [found |-> TRUE, text |-> t]

\* The anchors' hrefs the listing pages are made of
HrefJanA == Host \o <<"/","2","0","2","5","/","0","1","/","a">>
HrefJanSports == Host \o <<"/","2","0","2","5","/","0","1","/","S","p","o","r","t","s","/","b">>
HrefDecC == Host \o <<"/","2","0","2","4","/","1","2","/","c">>
HrefUnpadded == Host \o <<"/","2","0","2","5","/","1","/","u">>
HrefRelative == <<"/","2","0","2","5","/","0","1","/","r">>

Hrefs == {HrefJanA, HrefJanSports, HrefDecC, HrefUnpadded, HrefRelative}

\* The anchors a listing page may hold
AnchorSets ==
    {{},
     {HrefJanA, HrefDecC, HrefUnpadded, HrefRelative},
     {HrefJanSports, HrefDecC},
     {HrefJanA, HrefJanSports}}

\* A listing page: its anchors and whether it has a.next.page-numbers
ListingPages == [hrefs : AnchorSets, next : BOOLEAN]

ParaA49 == Rep("a", 49)
ParaB49 == Rep("b", 49)
ParaB50 == Rep("b", 50)

TitleText == <<"N","e","w","s">>

NoSelectors3 == <<NoNode, NoNode, NoNode>>
NoSelectors4 == <<NoNode, NoNode, NoNode, NoNode>>

\* An article page: the h1, whether div.ok18-single-post-content-wrap is
\* there, the raw text of its <p>s, and per selector of each chain the
\* element it finds
PageNoTitle ==
    [h1 |-> NoNode, wrap |-> TRUE, paragraphs |-> <<Rep("a", 120)>>,
     timestamp_els |-> NoSelectors4, category_els |-> NoSelectors3,
     author_els |-> NoSelectors4]

PageNoWrap ==
    [h1 |-> Node(TitleText), wrap |-> FALSE, paragraphs |-> <<>>,
     timestamp_els |-> NoSelectors4, category_els |-> NoSelectors3,
     author_els |-> NoSelectors4]

\* 49 + 1 + 49 = 99 characters once joined: the blank <p> is skipped
Page99 ==
    [h1 |-> Node(TitleText), wrap |-> TRUE,
     paragraphs |-> <<ParaA49, <<" ">>, ParaB49>>,
     timestamp_els |-> NoSelectors4, category_els |-> NoSelectors3,
     author_els |-> NoSelectors4]

\* 49 + 1 + 50 = 100 characters once stripped and joined
Page100 ==
    [h1 |-> Node(<<" ">> \o TitleText \o <<"\n">>), wrap |-> TRUE,
     paragraphs |-> << <<" ">> \o ParaA49 \o <<" ">>, <<>>, ParaB50 >>,
     timestamp_els |-> NoSelectors4, category_els |-> NoSelectors3,
     author_els |-> NoSelectors4]

\* one <p> of 60 + 2 + 60 characters, two words; every chain finds
\* something; the h1 holds nothing but whitespace
PageLong ==
    [h1 |-> Node(<<" ", " ">>), wrap |-> TRUE,
     paragraphs |-> << Rep("a", 60) \o <<" ", " ">> \o Rep("b", 60) >>,
     timestamp_els |-> <<NoNode, Node(<<"1"," ","J","a","n">>), Node(<<"2"," ","J","a","n">>), NoNode>>,
     category_els |-> <<NoNode, NoNode, Node(<<" ","S","a","m","a","c","h","a","r"," ">>)>>,
     author_els |-> <<NoNode, NoNode, NoNode, Node(<<"D","e","s","k">>)>>]

ArticlePages == {PageNoTitle, PageNoWrap, Page99, Page100, PageLong}

\* What requests.get + raise_for_status + BeautifulSoup make of one GET:
\* a RequestException, a parsed page, or some other exception
TransportError == [kind |-> "RequestException"]
OtherError == [kind |-> "Exception"]
PageResponse(pg) == [kind |-> "page", page |-> pg]

Responses(pages) ==
    {TransportError, OtherError} \cup {PageResponse(pg) : pg \in pages}

\* The article pages the site of a whole run serves
RunPages == {PageNoTitle, Page99, Page100}


(***************************************************************************)
(* scrape_article: what the body of the try block computes from a parsed   *)
(* page.                                                                   *)
(***************************************************************************)
None == <<>>

Some(v) == <<v>>

\* element.get_text(strip=True) of an element holding one text node
GetText(t) == Strip(t)

\* the first selector of a chain that finds an element decides; else the default
RECURSIVE FirstFound(_, _)
FirstFound(els, default) ==
    IF els = <<>> THEN default
    ELSE IF Head(els).found THEN GetText(Head(els).text)
    ELSE FirstFound(Tail(els), default)

NoTimestamp == <<"N","o"," ","t","i","m","e","s","t","a","m","p"," ","f","o","u","n","d">>

General == <<"g","e","n","e","r","a","l">>

Unknown == <<"U","n","k","n","o","w","n">>

Categories ==
    <<<<"p","o","l","i","t","i","c","s">>,
      <<"s","p","o","r","t","s">>,
      <<"e","c","o","n","o","m","y">>,
      <<"t","e","c","h","n","o","l","o","g","y">>,
      <<"e","n","t","e","r","t","a","i","n","m","e","n","t">>,
      <<"h","e","a","l","t","h">>>>

\* for part in url_parts: if part.lower() in categories: return part
RECURSIVE FirstCategoryPart(_)
FirstCategoryPart(parts) ==
    IF parts = <<>> THEN General
    ELSE IF Lower(Head(parts)) \in Range(Categories) THEN Head(parts)
    ELSE FirstCategoryPart(Tail(parts))

ExtractTimestamp(pg) == FirstFound(pg.timestamp_els, NoTimestamp)

ExtractCategory(pg, u) ==
    IF \E k \in 1..Len(pg.category_els) : pg.category_els[k].found
    THEN FirstFound(pg.category_els, General)
    ELSE FirstCategoryPart(SplitOn(u, "/"))

ExtractAuthor(pg) == FirstFound(pg.author_els, Unknown)

\* ' '.join(p.get_text(strip=True) for p in paragraphs if p.get_text(strip=True))
PageContent(pg) ==
    Join(SelectSeq([k \in 1..Len(pg.paragraphs) |-> GetText(pg.paragraphs[k])],
                   LAMBDA t : t # <<>>),
         <<" ">>)

\* if not title_tag or not content_div
MissingStructure(pg) == ~pg.h1.found \/ ~pg.wrap

\* A quality check that also turns away a content of exactly 100 characters
TooShortInclusive(content) == Len(content) <= MIN_CONTENT_LEN

\* if len(content) < 100
TooShort(content) == Len(content) < MIN_CONTENT_LEN

\* article_data (scraped_at, the wall clock at creation, is left out)
ArticleData(pg, u, content) ==
    [url |-> u,
     timestamp |-> ExtractTimestamp(pg),
     title |-> GetText(pg.h1.text),
     content |-> content,
     category |-> ExtractCategory(pg, u),
     author |-> ExtractAuthor(pg),
     word_count |-> Len(Split(content)),
     char_count |-> Len(content),
     scraper_version |-> "enhanced_v1.0"]

\* A try block that raises on missing structure, into the retry handler
TryBodyRetrying(resp, u) ==
    IF resp.kind = "RequestException" THEN [kind |-> "RequestException", value |-> None]
    ELSE IF resp.kind = "Exception" THEN [kind |-> "Exception", value |-> None]
    ELSE IF MissingStructure(resp.page)
         THEN [kind |-> "RequestException", value |-> None]
    ELSE LET content == PageContent(resp.page)
         IN IF TooShort(content) THEN [kind |-> "return", value |-> None]
            ELSE [kind |-> "return",
                  value |-> Some(ArticleData(resp.page, u, content))]

\* How one pass through the try block ends: by a return (of a record or of
\* None), in the RequestException handler, or in the Exception handler
TryBody(resp, u) ==
    IF resp.kind = "RequestException" THEN [kind |-> "RequestException", value |-> None]
    ELSE IF resp.kind = "Exception" THEN [kind |-> "Exception", value |-> None]
    ELSE IF MissingStructure(resp.page) THEN [kind |-> "return", value |-> None]
    ELSE LET content == PageContent(resp.page)
         IN IF TooShort(content) THEN [kind |-> "return", value |-> None]
            ELSE [kind |-> "return",
                  value |-> Some(ArticleData(resp.page, u, content))]

\* A backoff that stops one failure early
ShouldBackoffEarly(attempt, retries) == attempt < retries - 2

\* A backoff taken after the final failure too
ShouldBackoffAlways(attempt, retries) == TRUE

\* if attempt < self.max_retries - 1: time.sleep(...)
ShouldBackoff(attempt, retries) == attempt < retries - 1

\* random.uniform(0, 1) is 0 + (1 - 0) * random.random(), and random() is in
\* [0, 1): the least jitter, one in the middle, and the greatest
Jitters == {0, TicksPerSecond \div 2, TicksPerSecond - 1}

\* The jitter of the runs in which the durations are not looked at
LeastJitter == {0}

\* A backoff that grows linearly with the attempt
BackoffTimeLinear(attempt, jitter) == TicksPerSecond * (2 * attempt) + jitter

\* sleep_time = (2 ** attempt) + random.uniform(0, 1)
BackoffTime(attempt, jitter) == TicksPerSecond * (2 ^ attempt) + jitter


(***************************************************************************)
(* get_article_links_for_month: the pure parts.                            *)
(***************************************************************************)
\* A month string without the zero padding
MonthStrUnpadded(m) == Str(m)

\* month_str = str(month).zfill(2)
MonthStr(m) == ZFill(Str(m), 2)

\* f"https://www.onlinekhabar.com/{year}/{month_str}/"
MonthPrefix(y, m) == Host \o <<"/">> \o Str(y) \o <<"/">> \o MonthStr(m) \o <<"/">>

\* the hrefs of a page that are added to links
MonthLinks(hrefs, y, m) == {h \in hrefs : Contains(h, MonthPrefix(y, m))}

\* A loop condition whose ceiling is one page too high
LoopCondOffByOne(n_links, max_articles, p) ==
    n_links < max_articles /\ p <= MAX_PAGES + 1

\* while len(links) < max_articles and page <= 20
LoopCond(n_links, max_articles, p) == n_links < max_articles /\ p <= MAX_PAGES

\* A loop that goes on past a page without a next marker
NeverBreak(lp) == FALSE

\* if not next_page: break
BreakOnLastPage(lp) == ~lp.next

\* list(links): the set's iteration order is whatever the hashes make it
Orderings(S) == {s \in [1..Cardinality(S) -> S] : Range(s) = S}

(***************************************************************************)
(* scrape_last_n_months: the pure parts.                                   *)
(***************************************************************************)
\* target_date = current_date - timedelta(days=30*i)
TargetDate(now, k) == MinusDays(now, 30 * k)

\* the urls handed to scrape_articles_bulk
UrlsToScrape(urls, per_month) == urls

\* The values datetime.now() takes in the runs explored
Dates ==
    {[year |-> 2025, month |-> 1, day |-> 31],
     [year |-> 2025, month |-> 1, day |-> 15]}

\* current_date before datetime.now() is taken
NoDate == [year |-> 0, month |-> 0, day |-> 0]

\* The (year, month) a direct call of get_article_links_for_month is given
YearMonths == {<<2025, 1>>, <<2024, 12>>, <<2025, 11>>}

\* The urls a direct call of scrape_articles_bulk is given
UrlChoices == {HrefJanA, HrefJanSports}

SeqsUpTo(S, n) == UNION {[1..k -> S] : k \in 0..n}

(***************************************************************************)
(* The state.                                                              *)
(***************************************************************************)
VARIABLES
    max_retries,         \* self.max_retries
    n_months,            \* scrape_last_n_months' n_months
    articles_per_month,  \* articles_per_month, the collector's max_articles
    current_date,        \* scrape_last_n_months' current_date
    pc,                  \* where the call is
    i,                   \* the month loop's index
    all_articles,        \* scrape_last_n_months' all_articles
    scraped_articles,    \* self.scraped_articles
    year, month,         \* the target month
    links, page,         \* get_article_links_for_month's locals
    article_urls,        \* the urls returned by the collector, given to bulk
    idx,                 \* scrape_articles_bulk: position in urls (from 1)
    month_articles,      \* scrape_articles_bulk's articles
    url, attempt,        \* scrape_article's url and loop index
    result,              \* what scrape_article returned
    \* What an observer of the current call has seen of it:
    listing_gets,        \* listing GETs issued
    listing_sleeps,      \* inter-page sleeps taken
    listing_fails,       \* listing GETs that raised
    saw_last,            \* a fetched listing page had no next marker
    last_hrefs,          \* the anchors of the listing page fetched last
    art_gets,            \* article GETs issued
    art_sleeps,          \* backoff sleeps taken
    art_fails,           \* article GETs that raised RequestException
    art_resp,            \* the page the server answered with, if it did
    backoffs,            \* the durations of the backoff sleeps taken, in ticks
    month_calls,         \* scrape_article calls made by this bulk call
    \* What an observer of the whole run has seen:
    links_calls,         \* get_article_links_for_month calls made
    break_taken,         \* the month just ended was followed by the break sleep
    slept_since_get,     \* a sleep was taken since the last GET (or no GET yet)
    last_get_unspaced,   \* the last GET followed the one before with no sleep
    any_answer,          \* some GET was answered with a page
    \* main and save_articles:
    saved,               \* the list the output file holds, None when not written
    write_failed,        \* the write in save_articles raised
    stats,               \* main's stats
    printed,             \* the lines of the summary main has printed
    raised               \* main ended by re-raising an exception

config == <<max_retries, n_months, articles_per_month, current_date>>
orch == <<i, all_articles, scraped_articles>>
target == <<year, month>>
coll == <<links, page>>
bulk == <<idx, month_articles>>
art == <<url, attempt, result>>
listing_obs == <<listing_gets, listing_sleeps, listing_fails, saw_last, last_hrefs>>
art_obs == <<art_gets, art_sleeps, art_fails, art_resp, backoffs>>
pacing == <<slept_since_get, last_get_unspaced>>
run_obs == <<links_calls, break_taken, pacing, any_answer>>
main_st == <<saved, write_failed, stats, printed, raised>>

vars == <<config, pc, orch, target, coll, article_urls, bulk, art,
          listing_obs, art_obs, month_calls, run_obs, main_st>>

\* A fresh scraper and nothing called yet
Fresh ==
    /\ max_retries \in 1..MaxRetriesBound
    /\ i = 0
    /\ all_articles = <<>>
    /\ scraped_articles = <<>>
    /\ links = {} /\ page = 1
    /\ idx = 1 /\ month_articles = <<>>
    /\ url = <<>> /\ attempt = 0 /\ result = None
    /\ listing_gets = 0 /\ listing_sleeps = 0 /\ listing_fails = 0
    /\ saw_last = FALSE /\ last_hrefs = {}
    /\ art_gets = 0 /\ art_sleeps = 0 /\ art_fails = 0 /\ art_resp = None
    /\ backoffs = <<>>
    /\ month_calls = 0
    /\ links_calls = 0 /\ break_taken = FALSE
    /\ slept_since_get = TRUE /\ last_get_unspaced = FALSE
    /\ any_answer = FALSE
    /\ saved = None /\ write_failed = FALSE
    /\ stats = None /\ printed = 0 /\ raised = FALSE

\* scrape_last_n_months(n_months, articles_per_month) is called
Init ==
    /\ Fresh
    /\ n_months \in 1..MaxMonths
    /\ articles_per_month \in 1..MaxPerMonth
    /\ current_date \in Dates
    /\ year = 0 /\ month = 0
    /\ article_urls = <<>>
    /\ pc = "month_loop"

\* get_article_links_for_month(year, month, max_articles) is called
InitLinks ==
    /\ Fresh
    /\ n_months = 0
    /\ articles_per_month \in 1..MaxPerMonth
    /\ current_date = NoDate
    /\ \E ym \in YearMonths : year = ym[1] /\ month = ym[2]
    /\ article_urls = <<>>
    /\ pc = "links_loop"

\* scrape_articles_bulk(urls) is called
InitBulk ==
    /\ Fresh
    /\ n_months = 0
    /\ articles_per_month = 1
    /\ current_date = NoDate
    /\ year = 0 /\ month = 0
    /\ article_urls \in SeqsUpTo(UrlChoices, MaxUrls)
    /\ pc = "bulk_loop"

ListingObsReset ==
    /\ listing_gets' = 0 /\ listing_sleeps' = 0 /\ listing_fails' = 0
    /\ saw_last' = FALSE /\ last_hrefs' = {}

ArtObsReset ==
    /\ art_gets' = 0 /\ art_sleeps' = 0 /\ art_fails' = 0 /\ art_resp' = None
    /\ backoffs' = <<>>

\* requests.get is called; then_sleeps: the step goes on to a time.sleep
IssueGet(then_sleeps) ==
    /\ last_get_unspaced' = ~slept_since_get
    /\ slept_since_get' = then_sleeps

(***************************************************************************)
(* scrape_last_n_months and get_article_links_for_month.                   *)
(***************************************************************************)
\* One more month: the target month is computed and the link collector entered
StartMonth ==
    /\ pc = "month_loop" /\ i < n_months
    /\ year' = TargetDate(current_date, i).year
    /\ month' = TargetDate(current_date, i).month
    /\ links' = {} /\ page' = 1
    /\ ListingObsReset
    /\ pc' = "links_loop"
    /\ links_calls' = links_calls + 1
    /\ UNCHANGED <<config, main_st, orch, article_urls, bulk, art, art_obs, month_calls,
                   break_taken, pacing, any_answer>>

\* A listing GET is answered with a page; a site of site_pages listing pages
\* has no next marker on its last one
ListingFetchOk(site_pages) ==
    /\ pc = "links_loop"
    /\ LoopCond(Cardinality(links), articles_per_month, page)
    /\ \E lp \in ListingPages :
        /\ lp.next => page < site_pages
        /\ links' = links \cup MonthLinks(lp.hrefs, year, month)
        /\ listing_gets' = listing_gets + 1
        /\ last_hrefs' = lp.hrefs
        /\ saw_last' = (saw_last \/ ~lp.next)
        /\ IF BreakOnLastPage(lp)
           THEN /\ pc' = "links_done"
                /\ IssueGet(FALSE)
                /\ UNCHANGED <<page, listing_sleeps>>
           ELSE /\ page' = page + 1
                /\ listing_sleeps' = listing_sleeps + 1
                /\ IssueGet(TRUE)
                /\ pc' = "links_loop"
    /\ any_answer' = TRUE
    /\ UNCHANGED <<config, main_st, orch, target, article_urls, bulk, art, art_obs,
                   listing_fails, month_calls, links_calls, break_taken>>

\* A failed listing GET after which the links collected so far are dropped
ListingFetchFailDropping ==
    /\ pc = "links_loop"
    /\ LoopCond(Cardinality(links), articles_per_month, page)
    /\ listing_gets' = listing_gets + 1
    /\ listing_fails' = listing_fails + 1
    /\ links' = {}
    /\ pc' = "links_done"
    /\ IssueGet(FALSE)
    /\ UNCHANGED <<config, main_st, orch, target, page, article_urls, bulk, art,
                   art_obs, listing_sleeps, saw_last, last_hrefs, month_calls,
                   links_calls, break_taken, any_answer>>

\* A listing GET raises: except Exception: break
ListingFetchFail ==
    /\ pc = "links_loop"
    /\ LoopCond(Cardinality(links), articles_per_month, page)
    /\ listing_gets' = listing_gets + 1
    /\ listing_fails' = listing_fails + 1
    /\ pc' = "links_done"
    /\ IssueGet(FALSE)
    /\ UNCHANGED <<config, main_st, orch, target, coll, article_urls, bulk, art, art_obs,
                   listing_sleeps, saw_last, last_hrefs, month_calls,
                   links_calls, break_taken, any_answer>>

\* The while condition is false
LinksLoopExit ==
    /\ pc = "links_loop"
    /\ ~LoopCond(Cardinality(links), articles_per_month, page)
    /\ pc' = "links_done"
    /\ UNCHANGED <<config, main_st, run_obs, orch, target, coll, article_urls, bulk, art,
                   listing_obs, art_obs, month_calls>>

\* return list(links)
ReturnLinks ==
    /\ pc = "links_done"
    /\ article_urls' \in Orderings(links)
    /\ pc' = "got_links"
    /\ UNCHANGED <<config, main_st, run_obs, orch, target, coll, bulk, art, listing_obs, art_obs,
                   month_calls>>

\* if article_urls: scrape_articles_bulk(article_urls)
ScrapeMonth ==
    /\ pc = "got_links" /\ article_urls # <<>>
    /\ article_urls' = UrlsToScrape(article_urls, articles_per_month)
    /\ idx' = 1 /\ month_articles' = <<>>
    /\ month_calls' = 0
    /\ links' = {} /\ page' = 1
    /\ ListingObsReset
    /\ pc' = "bulk_loop"
    /\ UNCHANGED <<config, main_st, run_obs, orch, target, art, art_obs>>

\* An empty month that ends the month loop
SkipMonthAborting ==
    /\ pc = "got_links" /\ article_urls = <<>>
    /\ break_taken' = FALSE
    /\ links' = {} /\ page' = 1
    /\ ListingObsReset
    /\ pc' = "done"
    /\ UNCHANGED <<config, main_st, orch, target, article_urls,
                   bulk, art, art_obs, month_calls, links_calls, pacing, any_answer>>

\* else: no articles found for the month
SkipMonth ==
    /\ pc = "got_links" /\ article_urls = <<>>
    /\ i' = i + 1
    /\ links' = {} /\ page' = 1
    /\ ListingObsReset
    /\ pc' = "month_loop"
    /\ break_taken' = FALSE
    /\ UNCHANGED <<config, main_st, all_articles, scraped_articles, target, article_urls,
                   bulk, art, art_obs, month_calls, links_calls, pacing, any_answer>>

\* all_articles.extend(month_articles); the break before the next month
MonthEnd ==
    /\ pc = "bulk_ret"
    /\ all_articles' = all_articles \o month_articles
    /\ i' = i + 1
    /\ idx' = 1 /\ month_articles' = <<>>
    /\ article_urls' = <<>>
    /\ month_calls' = 0
    /\ break_taken' = (i < n_months - 1)
    /\ slept_since_get' = (slept_since_get \/ i < n_months - 1)
    /\ pc' = "month_loop"
    /\ UNCHANGED <<config, main_st, scraped_articles, target, coll, art, listing_obs,
                   art_obs, links_calls, last_get_unspaced, any_answer>>

\* return all_articles
Finish ==
    /\ pc = "month_loop" /\ i >= n_months
    /\ pc' = "done"
    /\ UNCHANGED <<config, main_st, run_obs, orch, target, coll, article_urls, bulk, art,
                   listing_obs, art_obs, month_calls>>

(***************************************************************************)
(* scrape_articles_bulk and scrape_article.                                *)
(***************************************************************************)
\* for url in urls: article = self.scrape_article(url)
BulkNext ==
    /\ pc = "bulk_loop" /\ idx <= Len(article_urls)
    /\ url' = article_urls[idx]
    /\ attempt' = 0
    /\ result' = None
    /\ ArtObsReset
    /\ month_calls' = month_calls + 1
    /\ pc' = "attempt"
    /\ UNCHANGED <<config, main_st, run_obs, orch, target, coll, article_urls, bulk, listing_obs>>

\* An attempt whose try block returns
ArticleReturn(pages) ==
    /\ pc = "attempt" /\ attempt < max_retries
    /\ \E resp \in Responses(pages) :
        /\ LET out == TryBody(resp, url)
           IN out.kind = "return" /\ result' = out.value
        /\ art_resp' = IF resp.kind = "page" THEN Some(resp.page) ELSE art_resp
    /\ art_gets' = art_gets + 1
    /\ pc' = "article_ret"
    /\ IssueGet(FALSE)
    /\ any_answer' = TRUE
    /\ UNCHANGED <<config, main_st, orch, target, coll, article_urls, bulk, url, attempt,
                   listing_obs, art_sleeps, art_fails, backoffs, month_calls,
                   links_calls, break_taken>>

\* An attempt that ends in except RequestException
ArticleRequestException(pages, jitters) ==
    /\ pc = "attempt" /\ attempt < max_retries
    /\ \E resp \in Responses(pages) :
        /\ TryBody(resp, url).kind = "RequestException"
        /\ art_resp' = IF resp.kind = "page" THEN Some(resp.page) ELSE art_resp
        /\ art_fails' = IF resp.kind = "page" THEN art_fails ELSE art_fails + 1
    /\ art_gets' = art_gets + 1
    /\ IF ShouldBackoff(attempt, max_retries)
       THEN /\ art_sleeps' = art_sleeps + 1
            /\ \E jitter \in jitters :
                   backoffs' = Append(backoffs, BackoffTime(attempt, jitter))
       ELSE UNCHANGED <<art_sleeps, backoffs>>
    /\ IssueGet(ShouldBackoff(attempt, max_retries))
    /\ attempt' = attempt + 1
    /\ IF attempt + 1 < max_retries
       THEN pc' = "attempt" /\ UNCHANGED result
       ELSE pc' = "article_ret" /\ result' = None
    /\ UNCHANGED <<config, main_st, orch, target, coll, article_urls, bulk, url,
                   listing_obs, month_calls, links_calls, break_taken, any_answer>>

\* An attempt that ends in except Exception: break
ArticleOtherException(pages) ==
    /\ pc = "attempt" /\ attempt < max_retries
    /\ \E resp \in Responses(pages) :
        /\ TryBody(resp, url).kind = "Exception"
        /\ art_resp' = IF resp.kind = "page" THEN Some(resp.page) ELSE art_resp
    /\ art_gets' = art_gets + 1
    /\ result' = None
    /\ pc' = "article_ret"
    /\ IssueGet(FALSE)
    /\ UNCHANGED <<config, main_st, orch, target, coll, article_urls, bulk, url, attempt,
                   listing_obs, art_sleeps, art_fails, backoffs, month_calls,
                   links_calls, break_taken, any_answer>>

\* A bulk call that keeps its records to itself
BulkHandleLocalOnly ==
    /\ pc = "article_ret"
    /\ IF result # None
       THEN month_articles' = Append(month_articles, result[1])
       ELSE UNCHANGED month_articles
    /\ idx' = idx + 1
    /\ url' = <<>> /\ attempt' = 0 /\ result' = None
    /\ ArtObsReset
    /\ slept_since_get' = TRUE
    /\ pc' = "bulk_loop"
    /\ UNCHANGED <<config, main_st, orch, target, coll, article_urls,
                   listing_obs, month_calls, links_calls, break_taken,
                   last_get_unspaced, any_answer>>

\* if article: append to both lists; then the rate-limiting sleep
BulkHandle ==
    /\ pc = "article_ret"
    /\ IF result # None
       THEN /\ month_articles' = Append(month_articles, result[1])
            /\ scraped_articles' = Append(scraped_articles, result[1])
       ELSE UNCHANGED <<month_articles, scraped_articles>>
    /\ idx' = idx + 1
    /\ url' = <<>> /\ attempt' = 0 /\ result' = None
    /\ ArtObsReset
    /\ pc' = "bulk_loop"
    /\ slept_since_get' = TRUE
    /\ UNCHANGED <<config, main_st, i, all_articles, target, coll, article_urls,
                   listing_obs, month_calls, links_calls, break_taken,
                   last_get_unspaced, any_answer>>

\* return articles
BulkReturn ==
    /\ pc = "bulk_loop" /\ idx > Len(article_urls)
    /\ pc' = "bulk_ret"
    /\ UNCHANGED <<config, main_st, run_obs, orch, target, coll, article_urls, bulk, art,
                   listing_obs, art_obs, month_calls>>

(***************************************************************************)
(* main, save_articles and get_scraping_stats.                             *)
(***************************************************************************)
\* sum(len(a['content']) for a in articles)
RECURSIVE ContentLenSum(_)
ContentLenSum(recs) ==
    IF recs = <<>> THEN 0
    ELSE Len(Head(recs).content) + ContentLenSum(Tail(recs))

\* stats["categories"][cat] = stats["categories"].get(cat, 0) + 1
CategoryCounts(recs) ==
    [c \in {recs[k].category : k \in 1..Len(recs)} |->
        Cardinality({k \in 1..Len(recs) : recs[k].category = c})]

\* get_scraping_stats (the average is the whole quotient; date_range, made
\* of scraped_at, is left out)
ScrapingStats(recs) ==
    IF recs = <<>> THEN [total_articles |-> 0]
    ELSE [total_articles |-> Len(recs),
          average_content_length |-> ContentLenSum(recs) \div Len(recs),
          categories |-> CategoryCounts(recs)]

\* main's prints of the summary, in order: the key of stats each one reads,
\* "" when it reads none
SummaryKeys ==
    <<"", "", "", "total_articles", "average_content_length", "categories", "", "">>

\* The prints done before the first one that reads a key stats lacks
\* (KeyError), all of them when no key is lacking
LinesPrinted(st) ==
    LET lacking == {k \in 1..Len(SummaryKeys) :
                       SummaryKeys[k] # "" /\ SummaryKeys[k] \notin DOMAIN st}
    IN IF lacking = {} THEN Len(SummaryKeys) ELSE Min(lacking) - 1

\* main is called: the scraper is built and scrape_last_n_months entered
InitMain ==
    /\ Fresh
    /\ max_retries = MAIN_MAX_RETRIES
    /\ n_months = MAIN_N_MONTHS
    /\ articles_per_month = MAIN_ARTICLES_PER_MONTH
    /\ current_date \in Dates
    /\ year = 0 /\ month = 0
    /\ article_urls = <<>>
    /\ pc = "month_loop"

\* scraper.save_articles(output_filename): articles is self.scraped_articles,
\* and the write goes through
SaveArticlesOk ==
    /\ pc = "done"
    /\ saved' = Some(scraped_articles)
    /\ pc' = "saved"
    /\ UNCHANGED <<config, orch, target, coll, article_urls, bulk, art,
                   listing_obs, art_obs, month_calls, run_obs,
                   write_failed, stats, printed, raised>>

\* A failed write that is let through to the caller, main's except clause
SaveArticlesFailRaising ==
    /\ pc = "done"
    /\ write_failed' = TRUE
    /\ raised' = TRUE
    /\ pc' = "main_exit"
    /\ UNCHANGED <<config, orch, target, coll, article_urls, bulk, art,
                   listing_obs, art_obs, month_calls, run_obs,
                   saved, stats, printed>>

\* open or json.dump raises: except Exception: logger.error
SaveArticlesFail ==
    /\ pc = "done"
    /\ write_failed' = TRUE
    /\ pc' = "saved"
    /\ UNCHANGED <<config, orch, target, coll, article_urls, bulk, art,
                   listing_obs, art_obs, month_calls, run_obs,
                   saved, stats, printed, raised>>

\* stats = scraper.get_scraping_stats()
GetStats ==
    /\ pc = "saved"
    /\ stats' = Some(ScrapingStats(scraped_articles))
    /\ pc' = "summary"
    /\ UNCHANGED <<config, orch, target, coll, article_urls, bulk, art,
                   listing_obs, art_obs, month_calls, run_obs,
                   saved, write_failed, printed, raised>>

\* The prints of the summary; a KeyError among them is caught by
\* except Exception, logged and raised again
PrintSummary ==
    /\ pc = "summary"
    /\ printed' = LinesPrinted(stats[1])
    /\ raised' = (LinesPrinted(stats[1]) < Len(SummaryKeys))
    /\ pc' = "main_exit"
    /\ UNCHANGED <<config, orch, target, coll, article_urls, bulk, art,
                   listing_obs, art_obs, month_calls, run_obs,
                   saved, write_failed, stats>>

(***************************************************************************)
(* The specifications: a whole run of scrape_last_n_months; direct calls   *)
(* of the collector, of the bulk scraper and of scrape_article through it; *)
(* and main.                                                               *)
(***************************************************************************)
Next ==
    \/ StartMonth
    \/ ListingFetchOk(MaxSitePages)
    \/ ListingFetchFail
    \/ LinksLoopExit
    \/ ReturnLinks
    \/ ScrapeMonth
    \/ SkipMonth
    \/ BulkNext
    \/ ArticleReturn(RunPages)
    \/ ArticleRequestException(RunPages, LeastJitter)
    \/ ArticleOtherException(RunPages)
    \/ BulkHandle
    \/ BulkReturn
    \/ MonthEnd
    \/ Finish

Spec == Init /\ [][Next]_vars

NextLinks ==
    \/ ListingFetchOk(MAX_PAGES + 2)
    \/ ListingFetchFail
    \/ LinksLoopExit
    \/ ReturnLinks

SpecLinks == InitLinks /\ [][NextLinks]_vars

NextBulk ==
    \/ BulkNext
    \/ ArticleReturn(ArticlePages)
    \/ ArticleRequestException(ArticlePages, LeastJitter)
    \/ ArticleOtherException(ArticlePages)
    \/ BulkHandle
    \/ BulkReturn

SpecBulk == InitBulk /\ [][NextBulk]_vars

\* scrape_articles_bulk([url]): one call of scrape_article, its backoff
\* sleeps with every jitter
InitArticle == InitBulk /\ Len(article_urls) = 1

NextArticle ==
    \/ BulkNext
    \/ ArticleReturn(ArticlePages)
    \/ ArticleRequestException(ArticlePages, Jitters)
    \/ ArticleOtherException(ArticlePages)
    \/ BulkHandle
    \/ BulkReturn

SpecArticle == InitArticle /\ [][NextArticle]_vars

\* main on a site whose listings go past the page ceiling
NextMain ==
    \/ StartMonth
    \/ ListingFetchOk(MAX_PAGES + 2)
    \/ ListingFetchFail
    \/ LinksLoopExit
    \/ ReturnLinks
    \/ ScrapeMonth
    \/ SkipMonth
    \/ BulkNext
    \/ ArticleReturn(RunPages)
    \/ ArticleRequestException(RunPages, LeastJitter)
    \/ ArticleOtherException(RunPages)
    \/ BulkHandle
    \/ BulkReturn
    \/ MonthEnd
    \/ Finish
    \/ SaveArticlesOk
    \/ SaveArticlesFail
    \/ GetStats
    \/ PrintSummary

SpecMain == InitMain /\ [][NextMain]_vars

(***************************************************************************)
(* What the claims are stated with: the text of a page, measured on the    *)
(* page itself.                                                            *)
(***************************************************************************)
Blank(t) == \A k \in 1..Len(t) : t[k] \in {" ", "\t", "\n"}

\* The length of t without its leading and trailing whitespace
TrimLen(t) ==
    Len(t) - Cardinality({k \in 1..Len(t) : Blank(SubSeq(t, 1, k))})
           - Cardinality({k \in 1..Len(t) : Blank(SubSeq(t, k, Len(t)))})

RECURSIVE TrimLenSum(_)
TrimLenSum(ps) ==
    IF ps = <<>> THEN 0
    ELSE (IF Blank(Head(ps)) THEN 0 ELSE TrimLen(Head(ps))) + TrimLenSum(Tail(ps))

\* The number of characters of the page's paragraph text, joined by spaces
TextLen(pg) ==
    LET inked == {k \in 1..Len(pg.paragraphs) : ~Blank(pg.paragraphs[k])}
    IN IF inked = {} THEN 0
       ELSE TrimLenSum(pg.paragraphs) + Cardinality(inked) - 1

\* The number of whitespace-separated words of c: the places where a word ends
WordsIn(c) ==
    Cardinality({k \in 1..Len(c) :
        ~Blank(<<c[k]>>) /\ (k = Len(c) \/ Blank(<<c[k + 1]>>))})

\* The four digits of a year, and the two of a month
Year4(y) ==
    <<DigitChars[(y \div 1000) + 1], DigitChars[((y \div 100) % 10) + 1],
      DigitChars[((y \div 10) % 10) + 1], DigitChars[(y % 10) + 1]>>

Pad2(m) == <<DigitChars[(m \div 10) + 1], DigitChars[(m % 10) + 1]>>

\* "/{year}/{month:02d}/"
MonthMark(y, m) == <<"/">> \o Year4(y) \o <<"/">> \o Pad2(m) \o <<"/">>

WellFormed(pg) == pg.h1.found /\ pg.wrap /\ TextLen(pg) >= 100

(***************************************************************************)
(* The claims.                                                             *)
(***************************************************************************)
\* C1: when scrape_article has returned after k RequestExceptions followed
\* by a well-formed page, it returned that page's record for its url, after
\* exactly k backoff sleeps and k + 1 GETs; and as long as fewer than
\* max_retries attempts have failed the next attempt is still to come.
C1_RetryThenSuccess ==
    /\ (pc = "article_ret" /\ art_resp # None /\ WellFormed(art_resp[1])) =>
          /\ result # None
          /\ result[1].url = url
          /\ result[1].char_count = TextLen(art_resp[1])
          /\ art_fails < max_retries
          /\ art_sleeps = art_fails
          /\ art_gets = art_fails + 1
    /\ (pc = "attempt") => (art_fails < max_retries /\ art_sleeps = art_fails)

\* C1 witness: max_retries = 3, two failures, then the record, two sleeps
C1_Witness ==
    /\ pc = "article_ret" /\ max_retries = 3
    /\ art_fails = 2 /\ art_sleeps = 2 /\ art_gets = 3
    /\ result # None

\* C2: when scrape_article has returned and every GET of the call raised a
\* RequestException, it issued exactly max_retries GETs, slept exactly
\* max_retries - 1 times and returned None.
C2_ExhaustedRetries ==
    (pc = "article_ret" /\ art_gets = art_fails) =>
        /\ art_gets = max_retries
        /\ art_sleeps = max_retries - 1
        /\ result = None

\* C2 witness: three failures out of three, two sleeps, None
C2_Witness ==
    /\ pc = "article_ret" /\ max_retries = 3
    /\ art_fails = 3 /\ art_gets = 3 /\ art_sleeps = 2
    /\ result = None

\* C3: a listing GET that raises is retried like an article GET: the page
\* loop is given up only once max_retries GETs of the page have failed.
C3_ListingRetried ==
    (pc \in {"links_done", "got_links"} /\ listing_fails > 0) =>
        listing_fails = max_retries

\* C4: one call of get_article_links_for_month issues at most 20 listing GETs.
C4_AtMostTwentyListingGets == listing_gets <= 20

\* C4 witness: the twentieth listing GET of a call has been issued
C4_Witness == listing_gets = 20 /\ page = 20 /\ pc = "links_done"

\* C5: once a fetched listing page had no next marker, the call issues no
\* further listing GET and takes no inter-page sleep (every sleep taken
\* followed an earlier page), and the links of that last page are in the
\* list returned.
C5_StopsAtLastPage ==
    /\ [][(saw_last /\ pc' \in {"links_loop", "links_done", "got_links"}) =>
             (listing_gets' = listing_gets /\ listing_sleeps' = listing_sleeps)]_vars
    /\ [](saw_last => listing_sleeps = listing_gets - 1)
    /\ []((saw_last /\ pc = "got_links") =>
             \A h \in last_hrefs :
                 Contains(h, Host \o MonthMark(year, month)) =>
                     h \in Range(article_urls))

\* C5 witness: the second page, short of the ceiling and of the target
\* count, had no next marker; its link is returned after one sleep
C5_Witness ==
    /\ pc = "got_links" /\ saw_last
    /\ listing_gets = 2 /\ listing_sleeps = 1
    /\ articles_per_month = 2 /\ year = 2025 /\ month = 1
    /\ HrefJanA \in last_hrefs
    /\ article_urls = <<HrefJanA>>

\* C6: every url in the link set, and every url returned, contains
\* "/{year}/{month:02d}/" for the year and month of the call.
C6_LinksOfTheMonth ==
    \A u \in links \cup Range(article_urls) :
        Contains(u, MonthMark(year, month))

\* C6 witness: a page with anchors of January 2025, of December 2024 and of
\* "/2025/1/" was fetched for January 2025, and only the first was added
C6_Witness ==
    /\ year = 2025 /\ month = 1
    /\ {HrefJanA, HrefDecC, HrefUnpadded} \subseteq last_hrefs
    /\ links = {HrefJanA}

\* C7: for each month, at most articles_per_month urls are passed to
\* scrape_article.
C7_TruncatedToCap == month_calls <= articles_per_month

\* C8: no two records of the aggregate, nor of scraped_articles, have the
\* same url.
C8_UniqueUrls ==
    /\ \A a, b \in 1..Len(all_articles) :
          a # b => all_articles[a].url # all_articles[b].url
    /\ \A a, b \in 1..Len(scraped_articles) :
          a # b => scraped_articles[a].url # scraped_articles[b].url

\* The records held anywhere: just returned, collected by the bulk call,
\* kept by the scraper, aggregated by the run
RecordsHeld ==
    Range(result) \cup Range(month_articles) \cup Range(scraped_articles)
        \cup Range(all_articles)

\* C9: every record held has a content of at least 100 characters, a
\* char_count equal to its length and a word_count equal to the number of
\* its whitespace-separated words; and a page with its structure yields a
\* record exactly when its joined paragraph text has at least 100
\* characters (99: none, 100: a record), the record's content having the
\* length of that text.
C9_RecordQuality ==
    /\ \A r \in RecordsHeld :
          /\ Len(r.content) >= 100
          /\ r.char_count = Len(r.content)
          /\ r.word_count = WordsIn(r.content)
    /\ (pc = "article_ret" /\ art_resp # None
            /\ art_resp[1].h1.found /\ art_resp[1].wrap) =>
          /\ (result # None) <=> (TextLen(art_resp[1]) >= 100)
          /\ (result # None) => (Len(result[1].content) = TextLen(art_resp[1]))

\* C9 witness: a run that kept the record of a page of exactly 100
\* characters, aggregated it, and now got None for a page of 99
C9_Witness ==
    /\ pc = "article_ret" /\ art_resp = Some(Page99) /\ result = None
    /\ TextLen(Page99) = 99
    /\ \E r \in Range(all_articles) : r.char_count = 100 /\ r.word_count = 2
    /\ scraped_articles # <<>>

\* A page that fails the structural or the quality check
Rejected(pg) == ~pg.h1.found \/ ~pg.wrap \/ TextLen(pg) < 100

\* C10: once the server has answered with a page that lacks the h1 or the
\* content wrapper, or whose content is shorter than 100 characters, the
\* call has returned None with no GET and no sleep after that page: one GET
\* and no sleep when no attempt failed before, whatever max_retries is.
C10_RejectionNotRetried ==
    (art_resp # None /\ Rejected(art_resp[1])) =>
        /\ pc = "article_ret"
        /\ result = None
        /\ art_gets = art_fails + 1
        /\ art_sleeps = art_fails

\* C10 witness: with max_retries = 3, a second call for the same url, the
\* first having yielded nothing, gets the page without h1: None after one
\* GET and no sleep
C10_Witness ==
    /\ pc = "article_ret" /\ max_retries = 3
    /\ idx = 2 /\ article_urls[1] = article_urls[2] /\ scraped_articles = <<>>
    /\ art_resp = Some(PageNoTitle)
    /\ result = None /\ art_gets = 1 /\ art_sleeps = 0


\* C11: when no GET of a run of main was answered with a page, and the
\* write went through, main ends with no record collected, the empty list
\* saved, every line of its summary printed, and without raising.
C11_FailedFetchesNotFatal ==
    (pc = "main_exit" /\ ~any_answer /\ ~write_failed) =>
        /\ scraped_articles = <<>>
        /\ saved = Some(<<>>)
        /\ printed = Len(SummaryKeys)
        /\ ~raised

\* C12: the k-th call of scrape_article made by a call of
\* scrape_articles_bulk is for the k-th url of its input, and when the bulk
\* call returns it has made as many calls as it was given urls; and when
\* scrape_last_n_months returns, get_article_links_for_month has been called
\* n_months times, once per month index.
C12_LoopsNotAborted ==
    /\ [][(pc = "bulk_loop" /\ pc' = "attempt") =>
             /\ month_calls' = month_calls + 1
             /\ url' = article_urls[month_calls + 1]]_vars
    /\ [](pc = "bulk_ret" => month_calls = Len(article_urls))
    /\ [][links_calls' # links_calls =>
             (links_calls = i /\ links_calls' = i + 1)]_vars
    /\ [](pc = "done" => links_calls = n_months)

\* C12 witness: the first of two months gave no link (no break was slept
\* after it); in the second, the first url gave no record and the second
\* url was scraped all the same
C12_Witness ==
    /\ pc = "bulk_ret" /\ n_months = 2 /\ i = 1 /\ ~break_taken
    /\ links_calls = 2
    /\ Len(article_urls) = 2 /\ month_calls = 2
    /\ Len(month_articles) = 1 /\ month_articles[1].url = article_urls[2]

\* C13: the record of a page on which no category selector matched has as
\* category the vocabulary word that a path segment of its url equals in
\* some letter case, in lower case, and "general" when no segment does.
C13_CategoryFromUrl ==
    (pc = "article_ret" /\ result # None /\ art_resp # None
        /\ \A k \in 1..Len(art_resp[1].category_els) :
              ~art_resp[1].category_els[k].found) =>
        /\ result[1].category \in Range(Categories) \cup {General}
        /\ \A w \in Range(Categories) :
              (\E seg \in Range(SplitOn(url, "/")) : Lower(seg) = w) =>
                  result[1].category = w

\* C14: every record held has a title of at least one character.
C14_TitleNonEmpty == \A r \in RecordsHeld : Len(r.title) >= 1

\* C15: the step of save_articles in which the write fails returns to the
\* caller, main, which goes on to the statistics: no exception is raised,
\* and scraped_articles is the same list as before.
C15_WriteFailureContained ==
    [][(pc = "done" /\ write_failed') =>
          /\ pc' = "saved"
          /\ ~raised'
          /\ scraped_articles' = scraped_articles]_vars

\* C15 witness: the write failed with records in memory, and main is about
\* to take the statistics of them
C15_Witness ==
    /\ pc = "saved" /\ write_failed /\ ~raised
    /\ saved = None
    /\ Len(scraped_articles) >= 2

\* 2^a, by doubling
RECURSIVE Doubled(_)
Doubled(a) == IF a = 0 THEN 1 ELSE 2 * Doubled(a - 1)

\* C16: the backoff sleep after failed attempt a (from 0) lasts at least 2^a
\* seconds and less than 2^a + 1; each one is strictly longer than the one
\* before; a sleep follows each failed attempt but the last, so that with
\* max_retries = 3 there are at most two, in [1,2) and then in [2,3).
C16_BackoffDurations ==
    /\ Len(backoffs) = art_sleeps
    /\ pc = "attempt" => Len(backoffs) = attempt
    /\ Len(backoffs) <= max_retries - 1
    /\ \A k \in 1..Len(backoffs) :
          /\ backoffs[k] >= TicksPerSecond * Doubled(k - 1)
          /\ backoffs[k] < TicksPerSecond * (Doubled(k - 1) + 1)
          /\ k > 1 => backoffs[k] > backoffs[k - 1]

\* C16 witness: max_retries = 3, the first sleep with the greatest jitter
\* and the second with none: just under 2 s, then 2 s
C16_Witness ==
    /\ max_retries = 3 /\ art_fails = 2
    /\ backoffs = <<2 * TicksPerSecond - 1, 2 * TicksPerSecond>>

\* C17: the listing GET that raises adds no link and ends the loop; and when
\* the call has returned after a GET raised on page p, it has issued p GETs
\* of which that one alone failed, slept p - 1 times, and returns each link
\* of the link set once: those of pages 1..p-1, none when p = 1.
C17_PartialLinksReturned ==
    /\ [][listing_fails' > listing_fails =>
             (links' = links /\ page' = page /\ pc' = "links_done")]_vars
    /\ [](listing_fails > 0 =>
             /\ pc \in {"links_done", "got_links"}
             /\ listing_fails = 1
             /\ listing_gets = page
             /\ listing_sleeps = page - 1
             /\ page = 1 => links = {})
    /\ []((pc = "got_links" /\ listing_fails > 0) =>
             /\ Range(article_urls) = links
             /\ Len(article_urls) = Cardinality(links))

\* C17 witness: page 1 gave one link of the month, the GET of page 2 raised,
\* and the call returned that link
C17_Witness ==
    /\ pc = "got_links" /\ listing_fails = 1
    /\ page = 2 /\ listing_gets = 2
    /\ article_urls = <<HrefJanA>>

\* C18: when a month of the run has ended, the break was slept after it
\* exactly when it was not the last month; and so it is still when the
\* listing pages of the next month are fetched.
C18_BreakBetweenMonths ==
    (i > 0 /\ pc \in {"month_loop", "links_loop", "links_done", "got_links"}) =>
        (break_taken <=> i < n_months)

\* C19: when scrape_last_n_months returns, the list it returns is
\* scraped_articles; scraped_articles changes only by the append of the
\* record scrape_article just returned, and every record returned is
\* appended.
C19_SameRecords ==
    /\ [](pc = "done" => all_articles = scraped_articles)
    /\ [][scraped_articles' # scraped_articles =>
             /\ pc = "article_ret" /\ result # None
             /\ scraped_articles' = Append(scraped_articles, result[1])]_vars
    /\ [][(pc = "article_ret" /\ pc' # "article_ret" /\ result # None) =>
             scraped_articles' = Append(scraped_articles, result[1])]_vars

\* C19 witness: a run of two months returned three records, so records of
\* both months, and scraped_articles holds the same three
C19_Witness ==
    /\ pc = "done" /\ n_months = 2
    /\ Len(all_articles) = 3
    /\ scraped_articles = all_articles

\* C20: no GET of a run follows the GET before it without a sleep in
\* between.
C20_GetsSpaced == ~last_get_unspaced

=============================================================================
